---- MODULE Spec2Model ----
(***************************************************************************)
(* aim-lab-from-hell: the fixed-timestep game loop, the target entity      *)
(* controller (spawn, countdown, hit or expire, respawn) and the game      *)
(* manager (score, misses, lives, NewGame/Playing/Paused/GameOver).        *)
(*                                                                         *)
(* Time is kept relative: sinceThen is the number of milliseconds between  *)
(* gameConfig.then and the last reading of Date.now().  _currentMaxTdd is  *)
(* kept in units of TARGET_ENTITY_TDD_DIFF_PER_UPDATE (0.05 = 1/20).       *)
(* console holds the lines logged by the handler that ran last, canvas the  *)
(* circles of the last draw; the texts HTMLManager writes are left out.    *)
(***************************************************************************)
EXTENDS Integers, Sequences, FiniteSets, TLC

VARIABLES status, sinceThen, targetEntityController, gameManager,
          rafPending, canvas, console

vars == <<status, sinceThen, targetEntityController, gameManager,
          rafPending, canvas, console>>

\* ------------------------------------------------------------------------
\* Program constants

TARGET_ENTITY_RADIUS == 25
TARGET_ENTITY_START_TTD == 30
TARGET_ENTITY_MAX_TTD == 10
\* 1 / TARGET_ENTITY_TDD_DIFF_PER_UPDATE: the number of updates per unit of ttd
TDD_UPDATES_PER_UNIT == 20
GAME_LIVES_AT_START == 5
fpsInterval == 100
width == 500
height == 500
DefaultTargetsLimit == 1

GameStatus == {"NewGame", "Playing", "Paused", "GameOver"}

\* ------------------------------------------------------------------------
\* Bounds of the model

\* updates one controller may run
MaxTicks == 34
\* clicks stop once the score has reached this
MaxScore == 1
\* frame callbacks that may be pending together
MaxPending == 1
\* updates one controller may run in SpecFair
MaxTicksFair == 8
\* the same two for the long game of SpecLong
MaxTicksLong == 420
MaxScoreLong == 30
\* the same two for SpecLoop, where the frame callbacks come at uneven times
MaxTicksLoop == 6
MaxPendingLoop == 2
\* updates one controller may run in SpecCollide
MaxTicksCollide == 3

\* values of targetsLimit a controller is configured with in SpecLimit
TargetsLimits == {1, 2}
\* centres randomNumber may pick for a new target
SpawnPoints == {<<26, 26>>, <<51, 26>>}
\* click coordinates relative to the canvas: each is the centre of a target
\* at one spawn point and lies exactly one radius from the other
ClickPoints == {<<26, 26>>, <<51, 26>>}
\* click coordinates in SpecCollide.  From the spawn point <<26, 26>> they are
\* the centre, two points inside the circle and five exactly one radius
\* away (25 = sqrt(15^2 + 20^2) = sqrt(7^2 + 24^2)); from <<51, 26>> some lie
\* inside, one on and some outside the circle
CollidePoints ==
  { <<26, 26>>, <<50, 26>>, <<43, 44>>,
    <<51, 26>>, <<41, 46>>, <<33, 50>>, <<26, 51>>, <<1, 26>> }
\* mouse buttons and keys delivered by the browser
Buttons == {0, 2}
Keys == {" ", "a"}
\* milliseconds between two readings of the clock
FrameDeltas == {150}
\* the same in SpecLoop: less than the frame interval, and more than two of them
LoopDeltas == {50, 250}

\* ------------------------------------------------------------------------
\* Values

undefined == <<>>

Max(a, b) == IF a >= b THEN a ELSE b

\* F(v), with v evaluated once: one statement after another
Then(v, F(_)) == CHOOSE r \in { F(x) : x \in {v} } : TRUE

\* gameConfig.paused()
paused(st) == st = "Paused" \/ st = "NewGame" \/ st = "GameOver"

\* randomNumber(min, max): the integers it can return
randomNumber(min, max) == min .. max

\* new TargetEntity(x, y, r, ttd)
TargetEntity(x, y, r, ttd) == [x |-> x, y |-> y, r |-> r, r2 |-> r * r, ttd |-> ttd]

\* TargetEntity.random() of the revision before the difficulty was added: it
\* takes no time-to-die and gives every target TARGET_ENTITY_TTD = 20
TargetEntityRandomFixed(tdd, rnd) ==
  TargetEntity(rnd[1], rnd[2], TARGET_ENTITY_RADIUS, 20)

\* TargetEntity.random(tdd), where rnd[1] and rnd[2] are the numbers the two
\* calls of randomNumber return
TargetEntityRandom(tdd, rnd) ==
  TargetEntity(rnd[1], rnd[2], TARGET_ENTITY_RADIUS, tdd)

\* the pairs of numbers the two calls of randomNumber in TargetEntity.random
\* can return
RandomDraws ==
  LET r == TARGET_ENTITY_RADIUS + 1
  IN  { q \in SpawnPoints : /\ q[1] \in randomNumber(r, width - r)
                            /\ q[2] \in randomNumber(r, height - r) }

\* canCollideWith that takes the rim of the circle as part of the target
canCollideWithRim(entity, c) ==
  (entity.x - c[1]) * (entity.x - c[1]) + (entity.y - c[2]) * (entity.y - c[2]) <= entity.r2

\* TargetEntity.canCollideWith({x, y})
canCollideWith(entity, c) ==
  (entity.x - c[1]) * (entity.x - c[1]) + (entity.y - c[2]) * (entity.y - c[2]) < entity.r2

\* new TargetEntityController()
NewTargetEntityController(limit) ==
  [targets |-> <<>>,
   targetsLimit |-> limit,
   shootAt |-> undefined,
   _currentMaxTdd |-> TARGET_ENTITY_START_TTD * TDD_UPDATES_PER_UNIT]

\* the getter without Math.max, so without the floor TARGET_ENTITY_MAX_TTD
currentMaxTddNoFloor(this) ==
  LET raw == this._currentMaxTdd
  IN  IF raw = TARGET_ENTITY_START_TTD * TDD_UPDATES_PER_UNIT
      THEN TARGET_ENTITY_START_TTD
      ELSE (raw - 1) \div TDD_UPDATES_PER_UNIT

\* get currentMaxTdd: Math.max(Math.floor(_currentMaxTdd), TARGET_ENTITY_MAX_TTD).
\* _currentMaxTdd is a double that has been decremented by 0.05 once per
\* update; from the first decrement on the double lies just below the exact
\* value, so that at a whole number Math.floor returns one less.
currentMaxTdd(this) ==
  LET raw == this._currentMaxTdd
      floor == IF raw = TARGET_ENTITY_START_TTD * TDD_UPDATES_PER_UNIT
               THEN TARGET_ENTITY_START_TTD
               ELSE (raw - 1) \div TDD_UPDATES_PER_UNIT
  IN  Max(floor, TARGET_ENTITY_MAX_TTD)

\* new GameManager()
NewGameManager ==
  [isGameInProgress |-> FALSE,
   currentScore |-> 0,
   currentMiss |-> 0,
   currentLives |-> GAME_LIVES_AT_START]

\* ------------------------------------------------------------------------

Init ==
  /\ status = "NewGame"
  /\ sinceThen = 0
  /\ targetEntityController = NewTargetEntityController(DefaultTargetsLimit)
  /\ gameManager = NewGameManager
  /\ rafPending = 0
  /\ canvas = <<>>
  /\ console = <<>>

\* ------------------------------------------------------------------------
\* The handlers work on a world w: the global objects a handler can reach.
\* w.replaced tells that the global targetEntityController no longer refers
\* to the controller whose update() is running.

World ==
  [status |-> status,
   targetEntityController |-> targetEntityController,
   gameManager |-> gameManager,
   console |-> <<>>,
   replaced |-> FALSE]

\* console.info(line)
info(w, line) == [w EXCEPT !.console = Append(@, line)]

\* GameManager.startGame()
startGame(w) == [w EXCEPT !.gameManager.isGameInProgress = TRUE]

\* GameManager.pauseGame()
pauseGame(w) == [w EXCEPT !.gameManager.isGameInProgress = FALSE]

\* gameOver() that goes back to the title state
gameOverAsNewGame(w) == [info(w, <<"over">>) EXCEPT !.status = "NewGame"]

\* gameOver()
gameOver(w) == [info(w, <<"over">>) EXCEPT !.status = "GameOver"]

\* resetGame() that leaves isGameInProgress as it is
resetGameInProgress(w) ==
  LET w2 == [w EXCEPT !.targetEntityController =
                         NewTargetEntityController(w.targetEntityController.targetsLimit),
                      !.replaced = TRUE]
      w3 == [w2 EXCEPT !.gameManager.currentLives = GAME_LIVES_AT_START,
                       !.gameManager.currentMiss = 0,
                       !.gameManager.currentScore = 0]
  IN  gameOver(w3)

\* resetGame() that keeps the controller instead of constructing a new one
resetGameSameController(w) ==
  LET w1 == [w EXCEPT !.gameManager.isGameInProgress = FALSE]
      w3 == [w1 EXCEPT !.gameManager.currentLives = GAME_LIVES_AT_START,
                       !.gameManager.currentMiss = 0,
                       !.gameManager.currentScore = 0]
  IN  gameOver(w3)

\* GameManager.resetGame()
resetGame(w) ==
  LET w1 == [w EXCEPT !.gameManager.isGameInProgress = FALSE]
      w2 == [w1 EXCEPT !.targetEntityController =
                          NewTargetEntityController(w.targetEntityController.targetsLimit),
                       !.replaced = TRUE]
      w3 == [w2 EXCEPT !.gameManager.currentLives = GAME_LIVES_AT_START,
                       !.gameManager.currentMiss = 0,
                       !.gameManager.currentScore = 0]
  IN  gameOver(w3)

\* GameManager.didHit()
didHit(w) ==
  LET w1 == [w EXCEPT !.gameManager.currentScore = @ + 1]
  IN  info(w1, <<"hit", w1.gameManager.currentScore>>)

\* didMiss() that ends the game only when the lives have gone below 0
didMissLateOver(w) ==
  LET w1 == [w EXCEPT !.gameManager.currentMiss = @ + 1,
                      !.gameManager.currentLives = @ - 1]
      w2 == info(w1, <<"miss", w1.gameManager.currentMiss, w1.gameManager.currentLives>>)
  IN  IF w2.gameManager.currentLives < 0 THEN resetGame(w2) ELSE w2

\* didMiss() that ends the game one life early
didMissEarlyOver(w) ==
  LET w1 == [w EXCEPT !.gameManager.currentMiss = @ + 1,
                      !.gameManager.currentLives = @ - 1]
      w2 == info(w1, <<"miss", w1.gameManager.currentMiss, w1.gameManager.currentLives>>)
  IN  IF w2.gameManager.currentLives <= 1 THEN resetGame(w2) ELSE w2

\* didMiss() that counts the miss and leaves the lives alone
didMissCountOnly(w) ==
  LET w1 == [w EXCEPT !.gameManager.currentMiss = @ + 1]
  IN  info(w1, <<"miss", w1.gameManager.currentMiss, w1.gameManager.currentLives>>)

\* GameManager.didMiss()
didMiss(w) ==
  LET w1 == [w EXCEPT !.gameManager.currentMiss = @ + 1,
                      !.gameManager.currentLives = @ - 1]
      w2 == info(w1, <<"miss", w1.gameManager.currentMiss, w1.gameManager.currentLives>>)
  IN  IF w2.gameManager.currentLives <= 0 THEN resetGame(w2) ELSE w2

\* TargetEntity.update(): the entity afterwards
EntityUpdate(entity) == [entity EXCEPT !.ttd = @ - 1]

\* the forEach that calls entity.update() only for a target that was not shot
RECURSIVE forEachTargetHitOrUpdate(_, _)
forEachTargetHitOrUpdate(l, i) ==
  IF i > Len(l.this.targets) THEN l
  ELSE
    LET entity == l.this.targets[i]
        shot == l.this.shootAt # undefined /\ canCollideWith(entity, l.this.shootAt)
        updated == EntityUpdate(entity)
        l1 == IF shot
              THEN [l EXCEPT !.w = didHit(@),
                             !.numberOfHits = @ + 1,
                             !.this.targets[i].ttd = -1]
              ELSE [l EXCEPT !.this.targets[i] = updated,
                             !.w = IF updated.ttd <= 0 THEN info(@, <<"expired">>) ELSE @]
    IN  forEachTargetHitOrUpdate(l1, i + 1)

\* the forEach without the ttd = -1 of a target that was shot
RECURSIVE forEachTargetNoSentinel(_, _)
forEachTargetNoSentinel(l, i) ==
  IF i > Len(l.this.targets) THEN l
  ELSE
    LET entity == l.this.targets[i]
        shot == l.this.shootAt # undefined /\ canCollideWith(entity, l.this.shootAt)
        l1 == IF shot
              THEN [l EXCEPT !.w = didHit(@), !.numberOfHits = @ + 1]
              ELSE l
        updated == EntityUpdate(l1.this.targets[i])
        l2 == [l1 EXCEPT !.this.targets[i] = updated,
                         !.w = IF updated.ttd <= 0 THEN info(@, <<"expired">>) ELSE @]
    IN  forEachTargetNoSentinel(l2, i + 1)

\* the forEach of TargetEntityController.update(), from target i on; l holds
\* the controller (this), the world and numberOfHits
RECURSIVE forEachTarget(_, _)
forEachTarget(l, i) ==
  IF i > Len(l.this.targets) THEN l
  ELSE
    LET entity == l.this.targets[i]
        shot == l.this.shootAt # undefined /\ canCollideWith(entity, l.this.shootAt)
        l1 == IF shot
              THEN [l EXCEPT !.w = didHit(@),
                             !.numberOfHits = @ + 1,
                             !.this.targets[i].ttd = -1]
              ELSE l
        updated == EntityUpdate(l1.this.targets[i])
        l2 == [l1 EXCEPT !.this.targets[i] = updated,
                         !.w = IF updated.ttd <= 0 THEN info(@, <<"expired">>) ELSE @]
    IN  forEachTarget(l2, i + 1)

\* TargetEntityController.generateNewTarget(), with the random numbers rnd
generateNewTarget(l, rnd) ==
  LET l1 == IF Len(l.this.targets) < l.this.targetsLimit
            THEN l
            ELSE [l EXCEPT !.w = info(@, <<"Targets entities overflowing">>)]
  IN  [l1 EXCEPT !.this.targets = Append(@, TargetEntityRandom(currentMaxTdd(l.this), rnd))]

\* a miss check that takes a shot for missed only if there was a target to
\* miss
checkMissIfTargets(l) ==
  LET didShotMissedTarget == /\ l.this.shootAt # undefined
                             /\ l.numberOfHits = 0
                             /\ Len(l.this.targets) > 0
      didTargetExpired == \E i \in 1 .. Len(l.this.targets) : l.this.targets[i].ttd = 0
  IN  IF didShotMissedTarget \/ didTargetExpired
      THEN [l EXCEPT !.w = didMiss(@)]
      ELSE l

\* a miss check that reports the missed shot and every expired target apart
RECURSIVE didMissTimes(_, _)
didMissTimes(w, n) == IF n = 0 THEN w ELSE didMissTimes(didMiss(w), n - 1)

checkMissEach(l) ==
  LET didShotMissedTarget == l.this.shootAt # undefined /\ l.numberOfHits = 0
      expired == { i \in 1 .. Len(l.this.targets) : l.this.targets[i].ttd = 0 }
  IN  [l EXCEPT !.w = didMissTimes(@, Cardinality(expired)
                                        + (IF didShotMissedTarget THEN 1 ELSE 0))]

\* the miss check of TargetEntityController.update(), after the forEach
checkMiss(l) ==
  LET didShotMissedTarget == l.this.shootAt # undefined /\ l.numberOfHits = 0
      didTargetExpired == \E i \in 1 .. Len(l.this.targets) : l.this.targets[i].ttd = 0
  IN  IF didShotMissedTarget \/ didTargetExpired
      THEN [l EXCEPT !.w = didMiss(@)]
      ELSE l

\* the removal of the dead targets in TargetEntityController.update()
removeDead(l) ==
  [l EXCEPT !.this.targets = SelectSeq(@, LAMBDA entity : entity.ttd > 0)]

\* a spawn step that goes on until the controller holds targetsLimit targets
RECURSIVE spawnUntilFull(_, _)
spawnUntilFull(l, rnd) ==
  IF Len(l.this.targets) < l.this.targetsLimit
  THEN spawnUntilFull(generateNewTarget(l, rnd), rnd)
  ELSE l

\* a spawn step that does not look at the number of targets
spawnAlways(l, rnd) == generateNewTarget(l, rnd)

\* the spawn step of TargetEntityController.update()
spawnIfNeeded(l, rnd) ==
  IF Len(l.this.targets) < l.this.targetsLimit
  THEN generateNewTarget(l, rnd)
  ELSE l

\* update() that spawns before it updates the targets, so that a new target
\* is decremented in the update that spawned it
updateSpawnFirst(w, rnd) ==
  LET l0 == [this |-> w.targetEntityController, w |-> w, numberOfHits |-> 0]
  IN  Then(spawnIfNeeded(l0, rnd), LAMBDA l1 :
      Then(forEachTarget(l1, 1), LAMBDA l2 :
      Then(checkMiss(l2), LAMBDA l3 :
      Then(removeDead(l3), LAMBDA l4 :
      Then([l4 EXCEPT !.this.shootAt = undefined], LAMBDA l5 :
      Then([l5 EXCEPT !.this._currentMaxTdd = @ - 1], LAMBDA l6 :
        IF l6.w.replaced
        THEN l6.w
        ELSE [l6.w EXCEPT !.targetEntityController = l6.this]))))))

\* TargetEntityController.update() of the controller the global refers to,
\* with the random numbers rnd: the world afterwards
update(w, rnd) ==
  LET l0 == [this |-> w.targetEntityController, w |-> w, numberOfHits |-> 0]
  IN  Then(forEachTarget(l0, 1), LAMBDA l1 :
      Then(checkMiss(l1), LAMBDA l2 :
      Then(removeDead(l2), LAMBDA l3 :
      Then(spawnIfNeeded(l3, rnd), LAMBDA l4 :
      Then([l4 EXCEPT !.this.shootAt = undefined], LAMBDA l5 :
      Then([l5 EXCEPT !.this._currentMaxTdd = @ - 1], LAMBDA l6 :
        IF l6.w.replaced
        THEN l6.w
        ELSE [l6.w EXCEPT !.targetEntityController = l6.this]))))))

\* engineDidUpdate() without the isGameInProgress gate
engineDidUpdateAlways(w, rnd) == update(w, rnd)

\* engineDidUpdate()
engineDidUpdate(w, rnd) ==
  IF w.gameManager.isGameInProgress THEN update(w, rnd) ELSE w

\* engineDidDraw(): the circles on the canvas afterwards
engineDidDraw(w) ==
  [i \in 1 .. Len(w.targetEntityController.targets) |->
     LET entity == w.targetEntityController.targets[i]
     IN  <<entity.x, entity.y, entity.r>>]

\* The audio feedback.  The calls of sound.start(), sound.shoot(),
\* sound.miss() and sound.over() are at the four trigger points: the start of
\* a game, a hit, a miss and the game over, where the miss that takes the last
\* life triggers the game-over sound in place of the miss sound.  Each trigger
\* point logs its line ('started', 'hit', 'miss' with the lives left, 'over'):
\* soundOf is the sound triggered where the line is logged, sound(c) the
\* sounds of a handler that logged c.
soundOf(line) ==
  CASE line[1] = "started" -> <<"start">>
    [] line[1] = "hit" -> <<"shoot">>
    [] line[1] = "miss" -> IF line[3] > 0 THEN <<"miss">> ELSE <<>>
    [] line[1] = "over" -> <<"over">>
    [] OTHER -> <<>>

RECURSIVE sound(_)
sound(c) == IF c = <<>> THEN <<>> ELSE soundOf(Head(c)) \o sound(Tail(c))

\* the number of updates a controller has run
UpdatesRun(this) == TARGET_ENTITY_START_TTD * TDD_UPDATES_PER_UNIT - this._currentMaxTdd

\* the handler leaves the world w behind
Commit(w) ==
  /\ status' = w.status
  /\ targetEntityController' = w.targetEntityController
  /\ gameManager' = w.gameManager
  /\ console' = w.console

\* ------------------------------------------------------------------------
\* Handlers.  The inputs the environment delivers are parameters: the keys,
\* the buttons and click coordinates, the milliseconds since the clock was
\* last read, and the bounds on pending callbacks, score and updates.

\* pause() without engineDidPause(): the status changes, the game manager is
\* not told
pauseStatusOnly ==
  LET w1 == [info(World, <<"paused">>) EXCEPT !.status = "Paused"]
  IN  /\ Commit(w1)
      /\ UNCHANGED <<sinceThen, rafPending, canvas>>

\* pause()
pause ==
  LET w1 == [info(World, <<"paused">>) EXCEPT !.status = "Paused"]
  IN  /\ Commit(pauseGame(w1))
      /\ UNCHANGED <<sinceThen, rafPending, canvas>>

\* play(), with startGameLoop()
play(maxPending) ==
  LET w0 == IF status = "GameOver" THEN info(World, <<"cleared">>) ELSE World
      w1 == [info(w0, <<"started">>) EXCEPT !.status = "Playing"]
      w2 == startGame(w1)
      w3 == IF paused(w2.status)
            THEN info(w2, <<"starting loop when game is paused">>)
            ELSE w2
  IN  /\ rafPending < maxPending
      /\ Commit(w3)
      /\ rafPending' = rafPending + 1
      /\ UNCHANGED <<sinceThen, canvas>>

\* didKeyDown(event)
didKeyDownWith(keys, maxPending) ==
  \E key \in keys :
    IF key = " "
    THEN IF paused(status) THEN play(maxPending) ELSE pause
    ELSE /\ console' = <<>>
         /\ UNCHANGED <<status, sinceThen, targetEntityController, gameManager,
                        rafPending, canvas>>

\* didClick(event) that keeps the shot that is already waiting for the next
\* update instead of overwriting it
didClickKeepFirst(buttons, points, maxScore) ==
  \E button \in buttons, relativeXY \in points :
    /\ gameManager.currentScore < maxScore
    /\ console' = <<>>
    /\ IF button # 0 \/ paused(status) \/ targetEntityController.shootAt # undefined
       THEN UNCHANGED targetEntityController
       ELSE targetEntityController' =
              [targetEntityController EXCEPT !.shootAt = relativeXY]
    /\ UNCHANGED <<status, sinceThen, gameManager, rafPending, canvas>>

\* didClick(event) without the tests of the button and of paused()
didClickAlways(buttons, points, maxScore) ==
  \E button \in buttons, relativeXY \in points :
    /\ gameManager.currentScore < maxScore
    /\ console' = <<>>
    /\ targetEntityController' =
         [targetEntityController EXCEPT !.shootAt = relativeXY]
    /\ UNCHANGED <<status, sinceThen, gameManager, rafPending, canvas>>

\* didClick(event), with engineDidLeftClick
didClickWith(buttons, points, maxScore) ==
  \E button \in buttons, relativeXY \in points :
    /\ gameManager.currentScore < maxScore
    /\ console' = <<>>
    /\ IF button # 0 \/ paused(status)
       THEN UNCHANGED targetEntityController
       ELSE targetEntityController' =
              [targetEntityController EXCEPT !.shootAt = relativeXY]
    /\ UNCHANGED <<status, sinceThen, gameManager, rafPending, canvas>>

\* gameLoop() run n times: the world afterwards
RECURSIVE gameLoopTimes(_, _, _)
gameLoopTimes(w, rnd, n) ==
  IF n = 0 THEN w ELSE gameLoopTimes(engineDidUpdate(w, rnd), rnd, n - 1)

\* triggerGameLoop() that catches up: one gameLoop() for every frame interval
\* that has elapsed
frameCatchUp(dt, rnd) ==
  LET elapsed == sinceThen + dt
  IN  /\ rafPending > 0
      /\ rafPending' = IF ~paused(status) THEN rafPending ELSE rafPending - 1
      /\ IF elapsed > fpsInterval
         THEN /\ sinceThen' = elapsed % fpsInterval
              /\ \E w \in {gameLoopTimes(World, rnd, elapsed \div fpsInterval)} :
                    /\ Commit(w)
                    /\ canvas' = engineDidDraw(w)
         ELSE /\ sinceThen' = elapsed
              /\ console' = <<>>
              /\ UNCHANGED <<status, targetEntityController, gameManager, canvas>>

\* triggerGameLoop() that requests the next frame whatever the status
frameAlwaysRequests(dt, rnd) ==
  LET elapsed == sinceThen + dt
  IN  /\ rafPending > 0
      /\ rafPending' = rafPending
      /\ IF elapsed > fpsInterval
         THEN /\ sinceThen' = elapsed % fpsInterval
              /\ \E w \in {engineDidUpdate(World, rnd)} :
                    /\ Commit(w)
                    /\ canvas' = engineDidDraw(w)
         ELSE /\ sinceThen' = elapsed
              /\ console' = <<>>
              /\ UNCHANGED <<status, targetEntityController, gameManager, canvas>>

\* triggerGameLoop() with gameLoop(): a frame callback the browser runs dt
\* milliseconds after the clock was last read, with the random numbers rnd
frame(dt, rnd) ==
  LET elapsed == sinceThen + dt
  IN  /\ rafPending > 0
      /\ rafPending' = IF ~paused(status) THEN rafPending ELSE rafPending - 1
      /\ IF elapsed > fpsInterval
         THEN /\ sinceThen' = elapsed % fpsInterval
              /\ \E w \in {engineDidUpdate(World, rnd)} :
                    /\ Commit(w)
                    /\ canvas' = engineDidDraw(w)
         ELSE /\ sinceThen' = elapsed
              /\ console' = <<>>
              /\ UNCHANGED <<status, targetEntityController, gameManager, canvas>>

triggerGameLoopWith(deltas, maxTicks) ==
  \E dt \in deltas, rnd \in RandomDraws :
    /\ (gameManager.isGameInProgress /\ sinceThen + dt > fpsInterval)
         => UpdatesRun(targetEntityController) < maxTicks
    /\ frame(dt, rnd)

\* ------------------------------------------------------------------------
\* The game as shipped (targetsLimit 1), every input at every moment

didKeyDown == didKeyDownWith(Keys, MaxPending)

didClick == didClickWith(Buttons, ClickPoints, MaxScore)

triggerGameLoop == triggerGameLoopWith(FrameDeltas, MaxTicks)

Next == didKeyDown \/ didClick \/ triggerGameLoop

Spec == Init /\ [][Next]_vars

\* The same with short games, and the browser running every frame callback
\* that was requested

triggerGameLoopFair == triggerGameLoopWith(FrameDeltas, MaxTicksFair)

NextFair == didKeyDown \/ didClick \/ triggerGameLoopFair

SpecFair == Init /\ [][NextFair]_vars /\ WF_vars(triggerGameLoopFair)

\* ------------------------------------------------------------------------
\* The same handlers with targetsLimit set to any of TargetsLimits

InitLimit ==
  /\ status = "NewGame"
  /\ sinceThen = 0
  /\ targetEntityController \in
       { NewTargetEntityController(limit) : limit \in TargetsLimits }
  /\ gameManager = NewGameManager
  /\ rafPending = 0
  /\ canvas = <<>>
  /\ console = <<>>

didKeyDownLimit == didKeyDownWith({" "}, MaxPending)

didClickLimit == didClickWith({0}, ClickPoints, MaxScore)

NextLimit == didKeyDownLimit \/ didClickLimit \/ triggerGameLoop

SpecLimit == InitLimit /\ [][NextLimit]_vars

\* ------------------------------------------------------------------------
\* A long game: the player clicks only on the centre of a target that is in
\* its last tick (or lets it expire), which keeps a game alive well past the
\* point where the difficulty reaches its floor

LastMomentPoints ==
  { <<targetEntityController.targets[i].x, targetEntityController.targets[i].y>> :
      i \in { j \in 1 .. Len(targetEntityController.targets) :
                targetEntityController.targets[j].ttd = 1 } }

didKeyDownLong == didKeyDownWith({" "}, MaxPending)

didClickLong == didClickWith({0}, LastMomentPoints, MaxScoreLong)

triggerGameLoopLong == triggerGameLoopWith(FrameDeltas, MaxTicksLong)

NextLong == didKeyDownLong \/ didClickLong \/ triggerGameLoopLong

SpecLong == Init /\ [][NextLong]_vars

\* ------------------------------------------------------------------------
\* The frame loop: callbacks that come early or late, a second callback
\* requested while one is pending, and the browser running every callback
\* that was requested

didKeyDownLoop == didKeyDownWith({" "}, MaxPendingLoop)

didClickLoop == didClickWith({0}, ClickPoints, MaxScore)

triggerGameLoopLoop == triggerGameLoopWith(LoopDeltas, MaxTicksLoop)

NextLoop == didKeyDownLoop \/ didClickLoop \/ triggerGameLoopLoop

SpecLoop == Init /\ [][NextLoop]_vars /\ WF_vars(triggerGameLoopLoop)

\* ------------------------------------------------------------------------
\* Short games with clicks inside, on the rim of and outside the targets

didKeyDownCollide == didKeyDownWith({" "}, MaxPending)

didClickCollide == didClickWith({0}, CollidePoints, MaxScore)

triggerGameLoopCollide == triggerGameLoopWith(FrameDeltas, MaxTicksCollide)

NextCollide == didKeyDownCollide \/ didClickCollide \/ triggerGameLoopCollide

SpecCollide == Init /\ [][NextCollide]_vars

\* ------------------------------------------------------------------------
\* What a step tells about the update it ran

\* the step ran TargetEntityController.update(): the controller's difficulty
\* went down by one update, or the update ended the game
TickStep ==
  \/ targetEntityController'._currentMaxTdd = targetEntityController._currentMaxTdd - 1
  \/ (status = "Playing" /\ status' = "GameOver")

\* a shot is pending
ShotPending == targetEntityController.shootAt # undefined

\* the targets the pending shot collides with
HitTargets ==
  { i \in 1 .. Len(targetEntityController.targets) :
      /\ ShotPending
      /\ canCollideWith(targetEntityController.targets[i], targetEntityController.shootAt) }

\* the targets that are not shot and are in their last tick
ExpiringTargets ==
  { i \in 1 .. Len(targetEntityController.targets) :
      i \notin HitTargets /\ targetEntityController.targets[i].ttd = 1 }

\* the next update is a miss event
MissEvent == (ShotPending /\ HitTargets = {}) \/ ExpiringTargets # {}

\* the lines of a console that start with tag
Lines(c, tag) == { i \in 1 .. Len(c) : c[i][1] = tag }

\* the time-to-die of a target that the k-th update of a controller spawns
SpawnTtd(k) ==
  currentMaxTdd([_currentMaxTdd |-> TARGET_ENTITY_START_TTD * TDD_UPDATES_PER_UNIT - (k - 1)])

\* the targets as the forEach of an update that runs now leaves them to the
\* miss check and the removal
AfterForEach ==
  forEachTarget([this |-> targetEntityController, w |-> World, numberOfHits |-> 0],
                1).this.targets

\* the targets that the next update neither hits nor lets expire
LiveTargets ==
  { i \in 1 .. Len(targetEntityController.targets) :
      i \notin HitTargets /\ targetEntityController.targets[i].ttd > 1 }

\* how often x is in the sequence seq
Count(seq, x) == Cardinality({ i \in 1 .. Len(seq) : seq[i] = x })

FreshController ==
  /\ targetEntityController.targets = <<>>
  /\ targetEntityController.shootAt = undefined
  /\ targetEntityController._currentMaxTdd = TARGET_ENTITY_START_TTD * TDD_UPDATES_PER_UNIT

\* the max time-to-die a target spawned now would get
Difficulty == currentMaxTdd(targetEntityController)

\* the step is a frame callback that runs gameLoop()
DrawCycle ==
  \E dt \in FrameDeltas, rnd \in RandomDraws :
    sinceThen + dt > fpsInterval /\ frame(dt, rnd)

\* ------------------------------------------------------------------------
\* Claims

\* C1: in every state, whatever clicks, pauses, resumes and game overs came
\* before, the controller holds at most targetsLimit targets and the
\* assertion 'Targets entities overflowing' of generateNewTarget has not
\* failed.
C1_TargetsWithinLimit ==
  /\ Len(targetEntityController.targets) <= targetEntityController.targetsLimit
  /\ \A i \in 1 .. Len(console) : console[i][1] # "Targets entities overflowing"

\* an update has filled a controller of limit 2 after targets were removed
C1_Witness ==
  /\ targetEntityController.targetsLimit = 2
  /\ Len(targetEntityController.targets) = 2
  /\ Lines(console, "expired") # {}

\* C2: an update that is a miss event (the pending shot hits no target, or a
\* target that is not shot reaches time-to-die 0) logs the miss with the
\* miss count one higher and the lives one lower than before the update, and
\* unless that ends the game these are the counts after the update.
C2_MissCountsOnce ==
  [][ (TickStep /\ MissEvent) =>
        /\ \E i \in 1 .. Len(console') :
             console'[i] = <<"miss", gameManager.currentMiss + 1,
                             gameManager.currentLives - 1>>
        /\ gameManager.currentLives > 1 =>
             /\ gameManager'.currentMiss = gameManager.currentMiss + 1
             /\ gameManager'.currentLives = gameManager.currentLives - 1 ]_vars

\* a target expired with no shot pending and took the first life
C2_Witness ==
  /\ console = << <<"expired">>, <<"miss", 1, GAME_LIVES_AT_START - 1>> >>
  /\ gameManager.currentMiss = 1
  /\ gameManager.currentLives = GAME_LIVES_AT_START - 1

\* C3: when the miss of an update takes the last life, then after that update
\* score and misses are 0, lives are GAME_LIVES_AT_START, the status is
\* GameOver, the game is not in progress and the controller is a new one: no
\* targets, no pending shot, the difficulty at its start value.
C3_GameOverResets ==
  [][ (TickStep /\ MissEvent /\ gameManager.currentLives = 1) =>
        /\ gameManager'.currentScore = 0
        /\ gameManager'.currentMiss = 0
        /\ gameManager'.currentLives = GAME_LIVES_AT_START
        /\ gameManager'.isGameInProgress = FALSE
        /\ status' = "GameOver"
        /\ FreshController' ]_vars

\* the last life was just lost
C3_Witness ==
  /\ status = "GameOver"
  /\ \E i \in 1 .. Len(console) : console[i] = <<"miss", GAME_LIVES_AT_START, 0>>
  /\ FreshController
  /\ gameManager.currentLives = GAME_LIVES_AT_START

\* C4: with targetsLimit 1, an update whose pending shot collides with a
\* target in its last tick (time-to-die 1) counts a hit and no miss: the
\* score goes up by 1, lives and misses stay, no miss is logged.
C4_HitBeatsExpiry ==
  [][ (TickStep /\ \E i \in HitTargets : targetEntityController.targets[i].ttd = 1) =>
        /\ gameManager'.currentScore = gameManager.currentScore + 1
        /\ gameManager'.currentLives = gameManager.currentLives
        /\ gameManager'.currentMiss = gameManager.currentMiss
        /\ Lines(console', "miss") = {} ]_vars

\* the first target, spawned by the first update with time-to-die 30, was
\* shot by update 31, in which it would have expired
C4_Witness ==
  /\ UpdatesRun(targetEntityController) = TARGET_ENTITY_START_TTD + 1
  /\ gameManager.currentMiss = 0
  /\ gameManager.currentScore = 1
  /\ console = << <<"hit", 1>>, <<"expired">> >>

\* C5: an update calls the miss callback once if it is a miss event (also
\* when a missed shot and an expiry, or several expiries, fall together) and
\* not at all otherwise, so lives drop by at most 1 in an update.
C5_OneMissPerTick ==
  [][ TickStep =>
        /\ Cardinality(Lines(console', "miss")) = (IF MissEvent THEN 1 ELSE 0)
        /\ gameManager'.currentLives >= gameManager.currentLives - 1 ]_vars

\* two targets expired in one update, nothing was shot, one miss was counted
C5_Witness ==
  /\ Cardinality(Lines(console, "expired")) = 2
  /\ Lines(console, "hit") = {}
  /\ Cardinality(Lines(console, "miss")) = 1

\* C6: the max time-to-die handed to new spawns starts at
\* TARGET_ENTITY_START_TTD, never leaves the range from TARGET_ENTITY_MAX_TTD
\* to TARGET_ENTITY_START_TTD however many updates run, and goes up in a step
\* only when that step ends the game and installs a new controller, where it
\* is back at the start value; pause and resume leave it alone.
C6_DifficultyNonIncreasing ==
  /\ Difficulty = TARGET_ENTITY_START_TTD
  /\ [](TARGET_ENTITY_MAX_TTD <= Difficulty /\ Difficulty <= TARGET_ENTITY_START_TTD)
  /\ [][ /\ Difficulty' > Difficulty =>
              /\ status = "Playing" /\ status' = "GameOver"
              /\ Difficulty' = TARGET_ENTITY_START_TTD
         /\ (status # "Playing" \/ status' = "Paused") => Difficulty' = Difficulty ]_vars

\* paused in a game that has run on after the difficulty reached the floor
C6_Witness ==
  /\ status = "Paused"
  /\ Difficulty = TARGET_ENTITY_MAX_TTD
  /\ UpdatesRun(targetEntityController) =
       (TARGET_ENTITY_START_TTD - TARGET_ENTITY_MAX_TTD) * TDD_UPDATES_PER_UNIT + 15

\* C7: a step taken while the status is not Playing (a frame callback, a
\* click, a key), and the step that pauses, leave the controller as it is: no
\* time-to-die changes, no target is removed or spawned, the difficulty
\* stays; so after pause and resume every target has the time-to-die it had.
C7_FrozenWhileNotPlaying ==
  [][ (status # "Playing" \/ status' = "Paused") =>
        targetEntityController' = targetEntityController ]_vars

\* the frame callback left over from playing has run while paused, with
\* targets on the field
C7_Witness ==
  /\ status = "Paused"
  /\ rafPending = 0
  /\ console = <<>>
  /\ Len(targetEntityController.targets) > 0

\* C8: with targetsLimit 1, an update whose pending shot is the centre of the
\* live target adds 1 to the score, leaves lives and misses, and leaves the
\* controller with one target, newly spawned with the max time-to-die the
\* controller had when the update began.
C8_CentreHit ==
  [][ ( /\ TickStep
        /\ Len(targetEntityController.targets) = 1
        /\ targetEntityController.targets[1].ttd > 0
        /\ targetEntityController.shootAt =
             <<targetEntityController.targets[1].x, targetEntityController.targets[1].y>> )
      =>
        /\ gameManager'.currentScore = gameManager.currentScore + 1
        /\ gameManager'.currentLives = gameManager.currentLives
        /\ gameManager'.currentMiss = gameManager.currentMiss
        /\ Len(targetEntityController'.targets) = 1
        /\ targetEntityController'.targets[1].ttd = currentMaxTdd(targetEntityController)
        /\ <<targetEntityController'.targets[1].x, targetEntityController'.targets[1].y>>
             \in SpawnPoints ]_vars

\* the fifth update shot the first target and spawned one with the max
\* time-to-die of that moment, floor(30 - 4 * 0.05) = 29
C8_Witness ==
  /\ UpdatesRun(targetEntityController) = 5
  /\ console = << <<"hit", 1>>, <<"expired">> >>
  /\ gameManager.currentLives = GAME_LIVES_AT_START
  /\ Len(targetEntityController.targets) = 1
  /\ targetEntityController.targets[1].ttd = 29

\* C9: the status changes only from a not playing status to Playing by
\* play(), from Playing to Paused by pause(), and from Playing to GameOver by
\* an update whose miss takes the last life; play() never runs while Playing,
\* pause() never while not Playing, and NewGame is never entered again.
C9_StatusTransitions ==
  [][ /\ status' # status =>
           \/ /\ status \in {"NewGame", "Paused", "GameOver"}
              /\ status' = "Playing"
              /\ Lines(console', "started") # {}
           \/ /\ status = "Playing"
              /\ status' = "Paused"
              /\ Lines(console', "paused") # {}
           \/ /\ status = "Playing"
              /\ status' = "GameOver"
              /\ TickStep /\ MissEvent /\ gameManager.currentLives = 1
      /\ Lines(console', "started") # {} => status # "Playing" /\ status' = "Playing"
      /\ Lines(console', "paused") # {} => status = "Playing" /\ status' = "Paused"
      /\ status' = "NewGame" => status = "NewGame" ]_vars

\* a game was started again after a game over
C9_Witness ==
  /\ status = "Playing"
  /\ console = << <<"cleared">>, <<"started">> >>

\* C10: as stated: while the status stays other than Playing, draw cycles
\* keep being executed.
C10_RenderingContinues ==
  <>[](status # "Playing") => []<><<DrawCycle>>_vars

\* C10: as the code has it: while the status is not Playing a frame callback
\* that is still pending runs its draw cycle with the controller frozen (the
\* canvas shows the controller's targets) and does not request another frame;
\* no step adds a pending callback without starting the game; once none is
\* pending nothing draws or reads the clock; and unless the game is started
\* the pending callbacks run out.
C10_RenderingStopsWithLoop ==
  /\ [][ paused(status) =>
           /\ DrawCycle =>
                /\ rafPending' = rafPending - 1
                /\ targetEntityController' = targetEntityController
                /\ canvas' = engineDidDraw(World)
           /\ rafPending' > rafPending => status' = "Playing"
           /\ rafPending = 0 => (~DrawCycle /\ canvas' = canvas /\ sinceThen' = sinceThen) ]_vars
  /\ [](paused(status) => <>(status = "Playing" \/ rafPending = 0))

\* the game is over and the last frame callback has run
C10_Witness ==
  /\ status = "GameOver"
  /\ rafPending = 0
  /\ canvas = <<>>

\* C11: a frame callback that finds more than fpsInterval elapsed since
\* gameConfig.then runs one update and one draw, however many intervals have
\* elapsed, and sets then to now - (elapsed % fpsInterval), after which
\* 0 <= now - then < fpsInterval; a callback that finds fpsInterval or less
\* elapsed runs neither and leaves then alone.
C11_OneCyclePerCallback ==
  [][ \A dt \in LoopDeltas, rnd \in RandomDraws :
        frame(dt, rnd) =>
          IF sinceThen + dt > fpsInterval
          THEN /\ sinceThen' = (sinceThen + dt) % fpsInterval
               /\ 0 <= sinceThen' /\ sinceThen' < fpsInterval
               /\ gameManager.isGameInProgress => TickStep
               /\ ~gameManager.isGameInProgress =>
                    targetEntityController' = targetEntityController
               /\ canvas' = engineDidDraw([targetEntityController |->
                                             targetEntityController'])
          ELSE /\ sinceThen' = sinceThen + dt
               /\ UNCHANGED <<status, targetEntityController, gameManager, canvas>>
    ]_vars

\* a callback found three frame intervals elapsed (the only way now - then gets
\* back to 0) and the game is one update old
C11_Witness ==
  /\ sinceThen = 0
  /\ UpdatesRun(targetEntityController) = 1
  /\ gameManager.isGameInProgress
  /\ Len(targetEntityController.targets) = 1
  /\ canvas = engineDidDraw(World)

\* C12: the pending shot is one slot.  A left click while Playing leaves the
\* controller as it was except that shootAt is the click's coordinate,
\* whatever shot was pending; a pending shot stays pending until an update
\* runs; and an update decides its hits and its miss by the coordinate that
\* is pending then (one hit per target it collides with, a miss if it
\* collides with none, neither if no shot is pending) and leaves no shot
\* pending.
C12_SingleSlotShot ==
  [][ /\ \A p \in ClickPoints :
           (status = "Playing" /\ didClickWith({0}, {p}, MaxScore)) =>
             targetEntityController' = [targetEntityController EXCEPT !.shootAt = p]
      /\ (ShotPending /\ ~TickStep) => ShotPending'
      /\ TickStep =>
           /\ ~ShotPending'
           /\ Cardinality(Lines(console', "hit")) = Cardinality(HitTargets)
           /\ (ShotPending /\ HitTargets = {}) => Lines(console', "miss") # {}
           /\ (~ShotPending /\ ExpiringTargets = {}) => Lines(console', "miss") = {}
    ]_vars

\* an update has evaluated a shot that hit nothing: it counted the miss and
\* no shot is pending
C12_Witness ==
  /\ console = << <<"miss", 1, GAME_LIVES_AT_START - 1>> >>
  /\ ~ShotPending
  /\ Len(targetEntityController.targets) = 1
  /\ gameManager.currentScore = 0

\* C13: a click while the status is not Playing, a click with a button other
\* than the left one, and a key other than the space bar leave the status,
\* the game manager (score, misses, lives), the controller (targets, pending
\* shot, difficulty), the clock, the pending callbacks and the canvas as they
\* are, and log nothing (no assertion fails).
C13_IgnoredInputs ==
  [][ /\ \A button \in Buttons, p \in ClickPoints :
           (didClickWith({button}, {p}, MaxScore) /\ (button # 0 \/ status # "Playing")) =>
             /\ UNCHANGED <<status, gameManager, targetEntityController,
                            sinceThen, rafPending, canvas>>
             /\ console' = <<>>
      /\ \A key \in Keys \ {" "} :
           didKeyDownWith({key}, MaxPending) =>
             /\ UNCHANGED <<status, gameManager, targetEntityController,
                            sinceThen, rafPending, canvas>>
             /\ console' = <<>>
    ]_vars

\* the update that ended the game logged the miss; the empty log with the
\* callback of that frame still pending tells that an input came since then
C13_Witness ==
  /\ status = "GameOver"
  /\ rafPending = 1
  /\ console = <<>>
  /\ FreshController

\* C14: while Playing a frame callback is pending, and pause() leaves it
\* pending; while Paused every frame callback that runs leaves one fewer
\* pending, no step that stays Paused adds one, and no step changes the
\* controller; so a paused game, unless it is started again, gets to where
\* no callback is pending.
C14_PauseStopsLoop ==
  /\ [](status = "Playing" => rafPending >= 1)
  /\ [][ /\ (status = "Playing" /\ status' = "Paused") => rafPending' = rafPending
         /\ status = "Paused" =>
              /\ \A dt \in LoopDeltas, rnd \in RandomDraws :
                   frame(dt, rnd) => rafPending' = rafPending - 1
              /\ status' = "Paused" => rafPending' <= rafPending
              /\ targetEntityController' = targetEntityController
       ]_vars
  /\ [](status = "Paused" => <>(status = "Playing" \/ rafPending = 0))

\* the game was paused with a shot pending; the callbacks left over have run
\* without an update, so the shot is pending still
C14_Witness ==
  /\ status = "Paused"
  /\ rafPending = 0
  /\ ShotPending
  /\ Len(targetEntityController.targets) = 1

\* C15: an update with a shot pending and one target counts a hit iff the
\* squared distance from the target's centre to the shot is less than the
\* square of its radius; a shot at exactly one radius is no hit (it is a
\* miss), a shot at the centre is a hit.
C15_CollisionStrict ==
  [][ (TickStep /\ ShotPending /\ Len(targetEntityController.targets) = 1) =>
        LET entity == targetEntityController.targets[1]
            dx == entity.x - targetEntityController.shootAt[1]
            dy == entity.y - targetEntityController.shootAt[2]
            d2 == dx * dx + dy * dy
        IN  /\ Lines(console', "hit") # {} <=> d2 < entity.r * entity.r
            /\ d2 = entity.r * entity.r =>
                 Lines(console', "hit") = {} /\ Lines(console', "miss") # {}
            /\ d2 = 0 => Lines(console', "hit") # {}
    ]_vars

\* the target at <<26, 26>> was there when an update counted a shot as a
\* miss: of the points clicked, those that do not hit it are all exactly one
\* radius from its centre
C15_Witness ==
  /\ console = << <<"miss", 1, GAME_LIVES_AT_START - 1>> >>
  /\ Len(targetEntityController.targets) = 1
  /\ targetEntityController.targets[1].x = 26
  /\ targetEntityController.targets[1].y = 26
  /\ targetEntityController.targets[1].ttd < TARGET_ENTITY_START_TTD

C17_ExpiresAfterTtdTicks ==
  /\ [](\A i \in 1 .. Len(targetEntityController.targets) :
          LET entity == targetEntityController.targets[i]
              n == UpdatesRun(targetEntityController)
          IN  /\ entity.ttd > 0
              /\ \E k \in 1 .. n : entity.ttd = SpawnTtd(k) - (n - k))
  /\ [][ TickStep =>
           LET unshot(entity) ==
                 ~(ShotPending /\ canCollideWith(entity, targetEntityController.shootAt))
               live == SelectSeq(targetEntityController.targets,
                                 LAMBDA entity : unshot(entity) /\ entity.ttd > 1)
               after == targetEntityController'.targets
           IN  /\ status' # "GameOver" =>
                    /\ Len(after) \in {Len(live), Len(live) + 1}
                    /\ \A i \in 1 .. Len(live) : after[i] = EntityUpdate(live[i])
                    /\ Len(after) > Len(live) =>
                         after[Len(after)].ttd = currentMaxTdd(targetEntityController)
               /\ ExpiringTargets # {} =>
                    /\ Lines(console', "expired") # {}
                    /\ Lines(console', "miss") # {}
       ]_vars

\* the first target, spawned by update 1 with time-to-die 30 and never shot,
\* was removed by update 31, which counted the miss and spawned the next
C17_Witness ==
  /\ UpdatesRun(targetEntityController) = TARGET_ENTITY_START_TTD + 1
  /\ console = << <<"expired">>, <<"miss", 1, GAME_LIVES_AT_START - 1>> >>
  /\ gameManager.currentScore = 0
  /\ Len(targetEntityController.targets) = 1
  /\ targetEntityController.targets[1].ttd = SpawnTtd(TARGET_ENTITY_START_TTD + 1)

\* C18: as stated: when the miss check and the removal of an update run, a
\* target hit by the pending shot has time-to-die -1 and a target that was
\* not hit has one less than before.
C18_HitOrTicked ==
  [][ TickStep =>
        \A i \in 1 .. Len(targetEntityController.targets) :
          AfterForEach[i].ttd = IF i \in HitTargets
                                THEN -1
                                ELSE targetEntityController.targets[i].ttd - 1
    ]_vars

\* C18: as the code has it: the forEach of an update calls entity.update()
\* for every target; a target hit by the pending shot is set to -1 first, so
\* that it has time-to-die -2 when the miss check and the removal run (not 0:
\* it is not taken for expired) and is logged as expired after its hit; a
\* target that was not hit has one less than before.
C18_HitThenTicked ==
  [][ TickStep =>
        /\ \A i \in 1 .. Len(targetEntityController.targets) :
             AfterForEach[i].ttd = IF i \in HitTargets
                                   THEN -2
                                   ELSE targetEntityController.targets[i].ttd - 1
        /\ \A i \in Lines(console', "hit") :
             i < Len(console') /\ console'[i + 1] = <<"expired">>
    ]_vars

\* the third update of a controller of limit 2 has hit one target, logged it
\* as expired and kept the other
C18_Witness ==
  /\ targetEntityController.targetsLimit = 2
  /\ UpdatesRun(targetEntityController) = 3
  /\ console = << <<"hit", 1>>, <<"expired">> >>
  /\ Len(targetEntityController.targets) = 2
  /\ targetEntityController.targets[1].ttd = TARGET_ENTITY_START_TTD - 2

\* C19: as stated: after every update that does not end the game the
\* controller holds exactly targetsLimit targets.
C19_FillsToLimit ==
  [][ (TickStep /\ status' # "GameOver") =>
        Len(targetEntityController'.targets) = targetEntityController.targetsLimit
    ]_vars

\* C19: as the code has it: an update spawns one target if fewer than
\* targetsLimit are left after the removal, and none otherwise.  After an
\* update that does not end the game the controller holds the targets that
\* were neither hit nor expired and, if these are fewer than targetsLimit,
\* one more; with targetsLimit 1 that is exactly one target after every such
\* update.
C19_OneSpawnPerUpdate ==
  [][ (TickStep /\ status' # "GameOver") =>
        LET left == Cardinality(LiveTargets)
            limit == targetEntityController.targetsLimit
        IN  /\ Len(targetEntityController'.targets) =
                 (IF left < limit THEN left + 1 ELSE left)
            /\ limit = 1 => Len(targetEntityController'.targets) = 1
    ]_vars

\* the first update of a game with targetsLimit 2 has left one target
C19_Witness ==
  /\ targetEntityController.targetsLimit = 2
  /\ UpdatesRun(targetEntityController) = 1
  /\ status = "Playing"
  /\ Len(targetEntityController.targets) = 1

\* C20: at most one frame callback is pending, whatever the order of space
\* bar presses and frame callbacks.
C20_OneFramePending == rafPending <= 1

\* C21: in every state a handler leaves behind, gameManager.isGameInProgress
\* is true iff the status is Playing, so that engineDidUpdate() runs the
\* update exactly when paused() is false.
C21_ProgressIffPlaying ==
  /\ gameManager.isGameInProgress <=> status = "Playing"
  /\ gameManager.isGameInProgress <=> ~paused(status)

\* the update that ended the game has left the game not in progress, with
\* the frame callback it ran in requested again
C21_Witness ==
  /\ status = "GameOver"
  /\ ~gameManager.isGameInProgress
  /\ Lines(console, "over") # {}
  /\ rafPending > 0

\* C22: in every state a handler leaves behind, misses plus lives are
\* GAME_LIVES_AT_START, the lives are from 1 to GAME_LIVES_AT_START, the
\* misses from 0 to GAME_LIVES_AT_START - 1, and the score is not negative.
C22_LivesAndMisses ==
  /\ gameManager.currentMiss + gameManager.currentLives = GAME_LIVES_AT_START
  /\ gameManager.currentLives \in 1 .. GAME_LIVES_AT_START
  /\ gameManager.currentMiss \in 0 .. GAME_LIVES_AT_START - 1
  /\ gameManager.currentScore >= 0

\* a game with a hit and one life left
C22_Witness ==
  /\ status = "Playing"
  /\ gameManager.currentLives = 1
  /\ gameManager.currentMiss = GAME_LIVES_AT_START - 1
  /\ gameManager.currentScore = 1

\* C23: an update that finds a shot pending and no target (the first update
\* of a controller, after a click between the start and the first frame)
\* counts the shot as a miss: it logs no hit, the misses go up by 1, the
\* lives go down by 1, the game goes on, and the update leaves the first
\* target, spawned with the start time-to-die.
C23_ShotBeforeFirstTarget ==
  [][ (TickStep /\ ShotPending /\ targetEntityController.targets = <<>>) =>
        /\ UpdatesRun(targetEntityController) = 0
        /\ Lines(console', "hit") = {}
        /\ gameManager'.currentMiss = gameManager.currentMiss + 1
        /\ gameManager'.currentLives = gameManager.currentLives - 1
        /\ gameManager'.currentScore = gameManager.currentScore
        /\ status' = "Playing"
        /\ Len(targetEntityController'.targets) = 1
        /\ targetEntityController'.targets[1].ttd = TARGET_ENTITY_START_TTD
    ]_vars

\* the first update of a game has counted a miss and spawned the first
\* target: the time-to-die 30 tells that the target was not there to be shot
C23_Witness ==
  /\ UpdatesRun(targetEntityController) = 1
  /\ console = << <<"miss", 1, GAME_LIVES_AT_START - 1>> >>
  /\ gameManager.currentMiss = 1
  /\ Len(targetEntityController.targets) = 1
  /\ targetEntityController.targets[1].ttd = TARGET_ENTITY_START_TTD

====
